---------------------------- MODULE Spec2Model ----------------------------
(***************************************************************************)
(* Project Prometheus: the session orchestrator (src/core/orchestrator.py) *)
(* with its two front-ends (src/cli.py, src/web_app.py).                   *)
(*                                                                         *)
(* One session of one process is modelled.  The state is the Orchestrator  *)
(* object's fields, the persisted session file, the checkpoint file, the   *)
(* thread that serves the front-end ("main") and the Build Loop worker     *)
(* threads.  Provider calls and the execution agent are the environment:   *)
(* their results are drawn nondeterministically.                           *)
(***************************************************************************)
EXTENDS Naturals, Integers, Sequences, FiniteSets, TLC

\* ------------------------------------------------------------------ bounds
MaxWorkers  == 2   \* worker-thread slots that can be alive at once
MaxInputs   == 5   \* CLI input lines per run of the model
MaxReopenedInputs == 2   \* of them on a session taken over from an earlier run
MaxChats    == 2   \* web chat requests per run of the model
MaxRestarts == 1   \* process restarts per run of the model
MaxQueue    == 2   \* events of output_queue kept (older ones are consumed)
MaxDirSets  == 2   \* set-directory requests per run of the model
MaxCycles   == 5   \* counted cycles per run of the model

\* ------------------------------------------------------- program constants
max_total_cycles            == 10
max_consecutive_completions == 1
MaxConsecutiveErrors        == 3
CheckpointEvery             == 3

Providers == {"gemini", "claude"}
Null      == "null"
\* A file that does not exist.
NoFile    == [absent |-> TRUE]
Dirs      == {"dirA", "dirB"}

\* ProviderErrorHandler.ERROR_TYPES
ErrorTypes == {"rate_limit", "quota_exceeded", "connection_error",
               "usage_limit", "api_key_invalid", "generic_error"}

\* What a Gemini call can do: answer, or raise an exception whose text
\* detect_error_type classifies as one of these.
GeminiErrors   == {"rate_limit", "generic_error"}
GeminiOutcomes == {"ok"} \cup GeminiErrors

\* What _run_claude_with_prompt returns (it never raises): the answer, an
\* answer or error text holding a limit phrase, or an "Errore: ..." text of
\* a failed CLI run whose message names a connection problem or not.
ClaudeOutcomes == {"ok", "limit_reached", "failed_connection", "failed_other"}

\* _is_claude_limit_error
IsClaudeLimitError(o) == o = "limit_reached"

\* ProviderErrorHandler.detect_error_type on the text of an outcome
DetectErrorType(o) ==
    CASE o = "limit_reached"     -> "usage_limit"
      [] o = "failed_connection" -> "connection_error"
      [] o \in ErrorTypes        -> o
      [] OTHER                   -> "generic_error"

\* A should_attempt_fallback that takes every error for a recoverable one
ShouldAttemptFallbackAlways(error_type) == TRUE

\* ProviderErrorHandler.should_attempt_fallback
ShouldAttemptFallback(error_type) == error_type # "generic_error"

\* An outcome that is a failure of the provider with a recoverable category.
RecoverableFailure(o) == o # "ok" /\ ShouldAttemptFallback(DetectErrorType(o))

VARIABLES
    frontend,            \* "cli" or "web": which front-end drives the session
    gemini_available,    \* _lazy_import_gemini()
    mode,                \* "BRAINSTORMING" | "DEVELOPMENT"
    status,              \* StatusEnum
    working_directory,   \* Null or a directory
    project_plan,        \* Null or "plan"
    tdd_mode,
    is_running,
    total_cycles,
    consecutive_completion_signals,
    architect_llm,
    original_architect,
    current_architect,
    fallback_active,
    fallback_reason,
    model,               \* self.model / self.chat_session is not None
    last_configured,     \* _last_configured_architect (web_app), Null if unset
    output_queue,        \* the last MaxQueue events put on the queue
    session_file,        \* NoFile or the persisted state
    checkpoint_file,     \* NoFile or the checkpoint
    main,                \* the thread serving the front-end
    workers,             \* the Build Loop worker threads
    cli_monitoring,      \* the CLI sits in its monitoring loop
    inputs, restarts, dirsets,  \* counters bounding the run
    claude_call          \* one logical call of _run_claude_with_prompt

envVars   == <<frontend, gemini_available>>
sessVars  == <<mode, status, working_directory, project_plan, tdd_mode>>
loopVars  == <<is_running, total_cycles, consecutive_completion_signals>>
provVars  == <<architect_llm, original_architect, current_architect,
               fallback_active, fallback_reason, model, last_configured>>
fileVars  == <<session_file, checkpoint_file>>
thrVars   == <<main, workers, cli_monitoring>>
cntVars   == <<inputs, restarts, dirsets>>
vars == <<envVars, sessVars, loopVars, provVars, output_queue, fileVars,
          thrVars, cntVars, claude_call>>

Slots == 1..MaxWorkers

\* ------------------------------------------------------------ output queue
RECURSIVE LastN(_, _)
LastN(s, n) == IF Len(s) <= n THEN s ELSE LastN(Tail(s), n)

\* queue.put of the events evs, in order
Put(q, evs) == LastN(q \o evs, MaxQueue)


\* ----------------------------------------------------------------- threads
\* The record of one _get_architect_response call: the provider first
\* called, what it did, fallback_active and current_architect when that
\* result was handled, how the call ended, the provider the fallback
\* retried (Null if none), the error type that caused it and what the
\* retried call did.
NoCall == [target |-> Null, outcome |-> Null, fa |-> FALSE, cur |-> Null,
           result |-> Null, fb |-> Null, et |-> Null, fbo |-> Null]

\* step_response as the detectors see it, and the error signature
NoResp == [question |-> FALSE, completion |-> FALSE, error |-> FALSE,
           sig |-> Null]

\* A free worker slot. consecutive_errors and last_error_message are the
\* locals of _development_loop; streak and streak_sig record what happened,
\* whatever the loop: the number of cycles in a row (at most
\* MaxConsecutiveErrors are told apart) that ended in the error streak_sig.
\* child is the execution agent's process: "none", or "running" from Popen
\* until communicate() has returned.
NoWorker == [kind |-> "none", pc |-> "none", call |-> NoCall, resp |-> NoResp,
             consecutive_errors |-> 0, last_error_message |-> Null,
             first |-> Null, sentinels |-> 0,
             streak |-> 0, streak_sig |-> Null, child |-> "none"]

\* threading.Thread(target = the loop of that kind).start()
NewWorker(kind) == [NoWorker EXCEPT !.kind = kind, !.pc = "start"]

\* Thread.is_alive(): started and neither returned ("done") nor ended by an
\* exception nothing caught ("dead").
Alive(w) == workers[w].pc \notin {"none", "done", "dead"}
AliveWorkers == {w \in Slots : Alive(w)}
FreeSlot == CHOOSE w \in Slots : ~Alive(w) /\ \A v \in Slots : v < w => Alive(v)
HasFreeSlot == \E w \in Slots : ~Alive(w)

\* trig: the input served last held a start trigger; mon: the CLI saw its
\* own start phrase in it; dlg: it was served by handle_brainstorming, and
\* call is then the record of that dialogue turn's provider call; load: what
\* load_state found in the session file when the process last opened it;
\* backup: it renamed that file to a .corrupt backup.
IdleMain == [pc |-> "idle", call |-> NoCall, trig |-> FALSE, mon |-> FALSE,
             dlg |-> FALSE, load |-> "none", backup |-> FALSE]

\* --------------------------------------------------------------- save_state
\* The fields save_state writes that load_state reads back.
SavedState ==
    [mode |-> mode, project_plan |-> project_plan, tdd_mode |-> tdd_mode,
     working_directory |-> working_directory, status |-> status,
     development_was_active |-> (is_running /\ mode = "DEVELOPMENT"),
     original_architect |-> original_architect,
     current_architect |-> current_architect,
     fallback_active |-> fallback_active, fallback_reason |-> fallback_reason,
     consecutive_completion_signals |-> consecutive_completion_signals,
     total_cycles |-> total_cycles]

\* _setup_initial_chat_session: self.model for the selected architect
SetupModel(architect) == architect = "gemini" /\ gemini_available

\* ------------------------------------------------------------------- Init
\* The CLI has opened a session the web front-end made (both keep their
\* sessions in CONVERSATIONS_DIR): load_state restores the tdd_mode a web
\* request set to false (web_app.py 84-92), which the CLI never sets.
Reopened == frontend = "cli" /\ ~tdd_mode

\* No call of _run_claude_with_prompt is followed: the arguments, the
\* attempt's locals, the number of subprocess.run calls and the value returned.
NoStderr == [missing |-> TRUE, text |-> <<>>]
NoClaudeCall ==
    [pc |-> "none", timeout |-> 60, predictor |-> FALSE, prompt_length |-> 0,
     max_retries |-> 3, retry_count |-> 0, current_timeout |-> 0,
     invocations |-> 0, outcome |-> "none", stderr |-> NoStderr,
     error_type |-> "none", result |-> "none"]

\* Orchestrator.__init__ for a session with no saved file: the CLI asks for
\* the working directory before the first prompt and saves the session; the
\* web front-end leaves it unset until /api/set_directory.  Or the CLI on a
\* session of the web front-end, made there with one set-directory request
\* and dialogue requests, and still in dialogue.
InitSession ==
    /\ frontend \in {"cli", "web"}
    /\ gemini_available \in BOOLEAN
    /\ architect_llm \in Providers
    /\ mode = "BRAINSTORMING"
    /\ status = "IDLE"
    /\ working_directory = (IF frontend = "cli" THEN "dirA" ELSE Null)
    /\ project_plan = Null
    /\ tdd_mode \in (IF frontend = "cli" THEN BOOLEAN ELSE {TRUE})
    /\ is_running = FALSE
    /\ total_cycles = 0
    /\ consecutive_completion_signals = 0
    /\ original_architect = architect_llm
    /\ current_architect = architect_llm
    /\ fallback_active = FALSE
    /\ fallback_reason = Null
    /\ model = SetupModel(architect_llm)
    /\ last_configured = Null
    /\ output_queue = <<>>
    /\ session_file = (IF frontend = "cli" THEN SavedState ELSE NoFile)
    /\ checkpoint_file = NoFile
    /\ main = (IF Reopened THEN [IdleMain EXCEPT !.load = "intact"]
                            ELSE IdleMain)
    /\ workers = [w \in Slots |-> NoWorker]
    /\ cli_monitoring = FALSE
    /\ inputs = (IF Reopened THEN MaxInputs - MaxReopenedInputs ELSE 0)
    /\ restarts = 0
    /\ dirsets = (IF Reopened THEN 1 ELSE 0)

\* The CLI on a session whose process ended while the Build Loop was
\* running: the state load_state leaves (2596-2646), with status RUNNING
\* saved by _update_status before is_running is set, and the recovery worker
\* started.
InitRecovered ==
    /\ frontend = "cli"
    /\ gemini_available \in BOOLEAN
    /\ architect_llm \in Providers
    /\ mode = "DEVELOPMENT"
    /\ status = "RUNNING"
    /\ working_directory = "dirA"
    /\ project_plan = "plan"
    /\ tdd_mode = TRUE
    /\ is_running = TRUE
    /\ total_cycles = 1
    /\ consecutive_completion_signals = 0
    /\ original_architect = architect_llm
    /\ current_architect = architect_llm
    /\ fallback_active = FALSE
    /\ fallback_reason = Null
    /\ model = SetupModel(architect_llm)
    /\ last_configured = Null
    /\ output_queue = <<>>
    /\ session_file = [SavedState EXCEPT !.development_was_active = FALSE]
    /\ checkpoint_file = NoFile
    /\ main = [IdleMain EXCEPT !.load = "intact"]
    /\ workers = [w \in Slots |-> IF w = 1 THEN NewWorker("recovery")
                                          ELSE NoWorker]
    /\ cli_monitoring = FALSE
    /\ inputs = MaxInputs - MaxReopenedInputs
    /\ restarts = 0
    /\ dirsets = 0

\* The cycle count of the last checkpoint written before the cycle cap.
LateCycles == (max_total_cycles \div CheckpointEvery) * CheckpointEvery

\* The CLI on a session late in its build: a resumed worker wrote the
\* checkpoint at the top of cycle LateCycles (3299-3300), Ctrl-C stopped the
\* loop, the cycle's save_state (3318) wrote the session with the loop
\* stopped, and the program was closed and opened again (2596-2646: no
\* recovery, the loop was not active).
InitLate ==
    /\ frontend = "cli"
    /\ gemini_available = FALSE
    /\ architect_llm = "claude"
    /\ mode = "DEVELOPMENT"
    /\ status = "IDLE"
    /\ working_directory = "dirA"
    /\ project_plan = "plan"
    /\ tdd_mode = TRUE
    /\ is_running = FALSE
    /\ total_cycles = LateCycles
    /\ consecutive_completion_signals = 0
    /\ original_architect = architect_llm
    /\ current_architect = architect_llm
    /\ fallback_active = FALSE
    /\ fallback_reason = Null
    /\ model = SetupModel(architect_llm)
    /\ last_configured = Null
    /\ output_queue = <<>>
    /\ session_file = SavedState
    /\ checkpoint_file =
           [kind |-> "intact", total_cycles |-> LateCycles,
            consecutive_completion_signals |-> 0, tdd_mode |-> TRUE,
            architect_llm |-> architect_llm,
            current_architect |-> architect_llm, fallback_active |-> FALSE]
    /\ main = [IdleMain EXCEPT !.load = "intact"]
    /\ workers = [w \in Slots |-> NoWorker]
    /\ cli_monitoring = FALSE
    /\ inputs = MaxInputs - MaxReopenedInputs
    /\ restarts = 0
    /\ dirsets = 0

Init ==
    /\ InitSession \/ InitRecovered \/ InitLate
    /\ claude_call = NoClaudeCall

\* ------------------------------------------------- set_working_directory
\* /api/set_directory: get_orchestrator(session_id, lang) with the default
\* architect, set_working_directory(path), save_state().
GetOrchestrator(a) ==
    /\ architect_llm' = a
    /\ last_configured' = a
    /\ model' = (IF a # last_configured THEN SetupModel(a) ELSE model)

SetDirectory(d) ==
    /\ frontend = "web"
    \* the two names are interchangeable: the first request's is "dirA"
    /\ working_directory = Null => d = "dirA"
    /\ main.pc = "idle"
    /\ dirsets < MaxDirSets
    /\ dirsets' = dirsets + 1
    /\ GetOrchestrator("gemini")
    /\ working_directory' = d
    /\ UNCHANGED claude_call
    /\ UNCHANGED <<envVars, mode, status, project_plan, tdd_mode, loopVars,
                   original_architect, current_architect, fallback_active,
                   fallback_reason, output_queue, checkpoint_file, thrVars,
                   inputs, restarts>>
    /\ session_file' = SavedState'

\* ---------------------------------------------------------------- restart
\* What the session file holds when it is opened: the state last saved, or
\* text damaged since then.  "missing_key" is a file without display_history;
\* "wrong_type" one whose top-level value is not an object.
Corruptions == {"invalid_json", "missing_key", "wrong_type",
                "malformed_timestamp"}
FileKinds == {"intact"} \cup Corruptions

\* The exception load_state raises on each kind, and the except clause of
\* line 2648: (json.JSONDecodeError, KeyError, FileNotFoundError).
LoadRaises(c) ==
    CASE c = "invalid_json"        -> "JSONDecodeError"
      [] c = "missing_key"         -> "KeyError"
      [] c = "wrong_type"          -> "TypeError"
      [] c = "malformed_timestamp" -> "ValueError"
      [] OTHER                     -> Null
LoadCatches(x) == x \in {"JSONDecodeError", "KeyError", "FileNotFoundError"}

\* load_state on an intact file (2571-2646).
LoadIntact(a) ==
    LET st == session_file
        recover == /\ st.development_was_active
                   /\ st.mode = "DEVELOPMENT"
                   /\ st.project_plan # Null
                   /\ st.working_directory # Null
    IN /\ mode' = st.mode
       /\ project_plan' = st.project_plan
       /\ tdd_mode' = st.tdd_mode
       /\ working_directory' = st.working_directory
       /\ original_architect' = st.original_architect
       /\ current_architect' = st.current_architect
       /\ fallback_active' = st.fallback_active
       /\ fallback_reason' = st.fallback_reason
       /\ consecutive_completion_signals' = st.consecutive_completion_signals
       /\ total_cycles' = st.total_cycles
       /\ model' = SetupModel(a)
       /\ main' = [IdleMain EXCEPT !.load = "intact"]
       /\ status' = (IF recover THEN "RUNNING" ELSE st.status)
       /\ is_running' = recover
       /\ workers' = [w \in Slots |->
                        IF recover /\ w = 1 THEN NewWorker("recovery")
                                            ELSE NoWorker]
       \* _update_status saves before is_running is set
       /\ session_file' = (IF recover
                             THEN [SavedState' EXCEPT
                                     !.development_was_active = FALSE]
                             ELSE session_file)

\* The except clause of load_state (2648-2668): the file is renamed to
\* <name>.corrupt.<timestamp> and the fields listed there are reset; the
\* others keep what __init__ or the statements before the exception gave
\* them.
LoadQuarantines(a, c) ==
    /\ mode' = "BRAINSTORMING"
    /\ project_plan' = Null
    /\ working_directory' = Null
    /\ original_architect' = a
    /\ current_architect' = a
    /\ fallback_active' = FALSE
    /\ fallback_reason' = Null
    /\ model' = SetupModel(a)
    /\ tdd_mode' = (IF c = "missing_key" THEN session_file.tdd_mode ELSE TRUE)
    /\ status' = "IDLE"
    /\ is_running' = FALSE
    /\ consecutive_completion_signals' = 0
    /\ total_cycles' = 0
    /\ workers' = [w \in Slots |-> NoWorker]
    /\ main' = [IdleMain EXCEPT !.load = c, !.backup = TRUE]
    /\ session_file' = NoFile

\* An exception the except clause does not name leaves load_state and
\* Orchestrator.__init__: no object is built, the file stays as it is, the
\* CLI process ends with the traceback and the web request fails.  The
\* variables hold what a process without a session holds.
LoadCrashes(a, c) ==
    /\ mode' = "BRAINSTORMING"
    /\ project_plan' = Null
    /\ working_directory' = Null
    /\ original_architect' = a
    /\ current_architect' = a
    /\ fallback_active' = FALSE
    /\ fallback_reason' = Null
    /\ model' = FALSE
    /\ tdd_mode' = TRUE
    /\ status' = "IDLE"
    /\ is_running' = FALSE
    /\ consecutive_completion_signals' = 0
    /\ total_cycles' = 0
    /\ workers' = [w \in Slots |-> NoWorker]
    /\ main' = [IdleMain EXCEPT !.pc = "crashed", !.load = c]
    /\ session_file' = session_file

\* The process ends (its threads with it) and the session is opened again:
\* Orchestrator.__init__ finds the session file and calls load_state.
Restart(a, c) ==
    /\ restarts < MaxRestarts
    /\ session_file # NoFile
    /\ restarts' = restarts + 1
    /\ architect_llm' = a
    /\ last_configured' = Null
    /\ output_queue' = <<>>
    /\ cli_monitoring' = FALSE
    /\ IF c = "intact" THEN LoadIntact(a)
       ELSE IF LoadCatches(LoadRaises(c)) THEN LoadQuarantines(a, c)
       ELSE LoadCrashes(a, c)
    /\ UNCHANGED claude_call
    /\ UNCHANGED <<envVars, checkpoint_file, inputs, dirsets>>


\* --------------------------------------------- _get_architect_response
\* The provider _get_architect_response calls first (lines 2214, 2262).
TargetFor(m) ==
    IF current_architect = "gemini" /\ gemini_available /\ m
    THEN "gemini" ELSE "claude"
PrimaryTarget == TargetFor(model)

\* What the first provider can do.
OutcomesOf(t) == IF t = "gemini" THEN GeminiOutcomes ELSE ClaudeOutcomes

\* How _get_architect_response handles outcome o of the provider t it called
\* first: "returned" (the text goes to the caller), "fallback_claude" /
\* "fallback_gemini" (switch and retry), "both_failed" / "user_message"
\* (the exception raised).
PrimaryDecision(t, o) ==
    IF t = "gemini"
    THEN IF o = "ok" THEN "returned"
         ELSE IF ShouldAttemptFallback(DetectErrorType(o)) /\ ~fallback_active
              THEN "fallback_claude"
         ELSE IF fallback_active THEN "both_failed" ELSE "user_message"
    ELSE IF IsClaudeLimitError(o)
         THEN IF ShouldAttemptFallback(DetectErrorType(o)) /\ ~fallback_active
              THEN IF gemini_available /\ model THEN "fallback_gemini"
                                                 ELSE "both_failed"
              ELSE IF fallback_active THEN "both_failed" ELSE "user_message"
         ELSE "returned"

\* _attempt_fallback_to_claude / _attempt_fallback_to_gemini with the
\* [ARCHITECT_CHANGE] signal sent only after the retried call
FallbackStepsLate ==
    <<"put_user_message", "set_state", "call_provider",
      "put_architect_change", "put_fallback_success">>

\* The statements of _attempt_fallback_to_claude (2370-2386) and
\* _attempt_fallback_to_gemini (2403-2423) in program order.
FallbackSteps ==
    <<"put_user_message", "set_state", "put_architect_change",
      "call_provider", "put_fallback_success">>

CallIndex(steps) == CHOOSE i \in 1..Len(steps) : steps[i] = "call_provider"
StepsBeforeCall(steps) == SubSeq(steps, 1, CallIndex(steps) - 1)
StepsAfterCall(steps)  == SubSeq(steps, CallIndex(steps) + 1, Len(steps))
InSeq(x, s) == \E i \in 1..Len(s) : s[i] = x

\* The queue events the steps put, in order.
RECURSIVE EventsOf(_)
EventsOf(steps) ==
    IF steps = <<>> THEN <<>>
    ELSE (CASE steps[1] = "put_user_message"     -> <<"user_message">>
            [] steps[1] = "put_architect_change" -> <<"[ARCHITECT_CHANGE]">>
            [] steps[1] = "put_fallback_success" -> <<"fallback_success">>
            [] OTHER                             -> <<>>)
         \o EventsOf(Tail(steps))

\* How the retried call against the fallback provider t ends.
FallbackDecision(t, o) ==
    IF t = "claude" THEN "returned"
    ELSE IF o = "ok" THEN "returned" ELSE "both_failed"

\* The provider fields after the part `part` of the fallback's steps.
ApplyState(part, to, et) ==
    IF InSeq("set_state", part)
    THEN /\ fallback_active' = TRUE
         /\ current_architect' = to
         /\ fallback_reason' = et
    ELSE UNCHANGED <<fallback_active, current_architect, fallback_reason>>

\* The worker record after it put the events evs.
Emit(r, evs) ==
    IF evs = <<>> THEN r
    ELSE [r EXCEPT !.first = IF r.first = Null THEN evs[1] ELSE r.first,
                   !.sentinels = IF r.sentinels < 2 /\ InSeq("None", evs)
                                 THEN r.sentinels + 1 ELSE r.sentinels]


IsFallback(d) == d \in {"fallback_claude", "fallback_gemini"}
FallbackToDecision(d) == d
\* The provider a fallback switches to: 'claude' (2374), 'gemini' (2407).
FallbackTo(d) == IF d = "fallback_claude" THEN "claude" ELSE "gemini"

\* The call record once the first provider's outcome o has been handled.
PrimaryCallRec(call, o) ==
    LET d == PrimaryDecision(call.target, o)
    IN [call EXCEPT !.outcome = o, !.fa = fallback_active,
                    !.cur = current_architect,
                    !.result = IF IsFallback(d) THEN Null ELSE d,
                    !.fb = IF IsFallback(d) THEN FallbackTo(d) ELSE Null,
                    !.et = IF IsFallback(d) THEN DetectErrorType(o) ELSE Null]

\* The provider fields and the queue events of that handling.
PrimaryProv(t, o) ==
    LET d == PrimaryDecision(t, o)
    IN IF IsFallback(d)
       THEN ApplyState(StepsBeforeCall(FallbackSteps), FallbackTo(d),
                       DetectErrorType(o))
       ELSE UNCHANGED <<fallback_active, current_architect, fallback_reason>>

PrimaryEvents(t, o) ==
    IF IsFallback(PrimaryDecision(t, o))
    THEN EventsOf(StepsBeforeCall(FallbackSteps)) ELSE <<>>

\* The same for the outcome o of the retried call.
FallbackCallRec(call, o) ==
    [call EXCEPT !.result = FallbackDecision(call.fb, o), !.fbo = o]

FallbackProv(call) == ApplyState(StepsAfterCall(FallbackSteps), call.fb, call.et)

FallbackEvents(call, o) ==
    IF FallbackDecision(call.fb, o) = "returned"
    THEN EventsOf(StepsAfterCall(FallbackSteps)) ELSE <<>>

\* ------------------------------------------------------ the Build Loop
ErrSigs == {"errA", "errB"}

\* The fields _save_checkpoint writes that _load_checkpoint reads back, and
\* the condition of the file: as written, or corrupted since.
CheckpointData ==
    [kind |-> "intact",
     total_cycles |-> total_cycles,
     consecutive_completion_signals |-> consecutive_completion_signals,
     tdd_mode |-> tdd_mode, architect_llm |-> architect_llm,
     current_architect |-> current_architect,
     fallback_active |-> fallback_active]

ErrorResp(sig) == [question |-> FALSE, completion |-> FALSE, error |-> TRUE,
                   sig |-> sig]

\* _detect_user_question (3038-3088): an empty text is no question; for any
\* other text re.search is called with the first option-list pattern,
\* "1\.**.*2\.**", which is no regular expression, and raises re.error.
DetectUserQuestion(empty) == IF empty THEN "no" ELSE "re.error"

\* What each loop does once handle_development_step has yielded its last
\* chunk (lines 3220-3281, 3316-3358, 3392-3403): history and save_state,
\* then in the initial and the resumed loop the question detector, then the
\* is_running test. Every path of handle_development_step yields text, so
\* the detector is never called on an empty step_response: it raises, nothing
\* in the loop or around it catches the exception, and the thread ends there,
\* before the completion detector, the is_running test and the closing
\* events. r is the worker after the step, resp what the step's text
\* carries, evs0 the events the step put, cpf the checkpoint file and sv the
\* session state at that point. The worker keeps in resp what its loop read
\* of the answer.
Post(w, r, resp, evs0, cpf, sv) ==
    LET detect == r.kind \in {"initial", "feedback"}
        raised == detect /\ DetectUserQuestion(FALSE) = "re.error"
        \* the error tracking of _development_loop (3225-3237), lost with
        \* the thread when the detector raises
        tracked == r.kind = "initial"
        errs == IF ~tracked \/ ~resp.error THEN 0
                ELSE IF resp.sig = r.last_error_message
                     THEN r.consecutive_errors + 1 ELSE 1
        lastmsg == IF tracked /\ resp.error THEN resp.sig ELSE Null
        run == IF ~resp.error THEN 0
               ELSE IF resp.sig # r.streak_sig THEN 1
               ELSE IF r.streak < MaxConsecutiveErrors THEN r.streak + 1
               ELSE r.streak
        kept == IF detect THEN [resp EXCEPT !.error = FALSE, !.sig = Null]
                ELSE NoResp
    IN /\ session_file' = sv
       /\ output_queue' = Put(output_queue, evs0)
       /\ checkpoint_file' = cpf
       /\ UNCHANGED <<is_running, consecutive_completion_signals>>
       /\ workers' = [workers EXCEPT ![w] =
            [Emit(r, evs0) EXCEPT
                !.consecutive_errors = IF raised THEN 0 ELSE errs,
                !.last_error_message = IF raised THEN Null ELSE lastmsg,
                !.streak = IF raised THEN 0 ELSE run,
                !.streak_sig = IF raised \/ ~resp.error THEN Null
                               ELSE resp.sig,
                !.resp = kept,
                !.pc = IF raised THEN "dead"
                       ELSE IF ~is_running THEN "exit" ELSE "loop"]]

\* The cycle counter _load_checkpoint restores (3486).
LoadedCyclesAdded(cp) == total_cycles + cp.total_cycles
LoadedCycles(cp) == cp.total_cycles

\* How _load_checkpoint finds a checkpoint file (3472-3502): as it was
\* written, or corrupted in one of the ways of a persisted file.  The
\* timestamp is not read back, so a malformed one is no corruption here.
CheckpointCorruptions == Corruptions \ {"malformed_timestamp"}
CheckpointKinds == {"intact"} \cup CheckpointCorruptions
\* json.load or the first .get raises, inside the try: invalid JSON, or JSON
\* that is no object.  An object that lacks keys is read with the defaults.
CheckpointLoadRaises(c) == c \in {"invalid_json", "wrong_type"}
\* checkpoint_data.get(key, default) for the keys of 3488-3493
CheckpointRead(cp, c) ==
    IF c = "missing_key"
    THEN [cp EXCEPT !.total_cycles = 0,
                    !.consecutive_completion_signals = 0,
                    !.tdd_mode = TRUE,
                    !.architect_llm = "gemini",
                    !.current_architect = "gemini",
                    !.fallback_active = FALSE]
    ELSE [cp EXCEPT !.total_cycles = LoadedCycles(cp)]

\* The prelude of each loop: _development_loop (3161-3190),
\* _development_loop_with_feedback (3286-3293), _development_loop_recovery
\* (3363-3384).  The resumed loop loads the checkpoint, found as c.
W_Start(w, c) ==
    LET r == workers[w]
        found == r.kind = "feedback" /\ checkpoint_file # NoFile
        load == found /\ ~CheckpointLoadRaises(c)
        cp == CheckpointRead(checkpoint_file, c)
        evs == IF r.kind = "recovery" THEN <<"recovery_notice">>
               ELSE IF load THEN <<"[INFO]checkpoint_found">> ELSE <<>>
    IN /\ r.pc = "start"
       /\ c \in CheckpointKinds
       /\ IF found
          THEN /\ checkpoint_file.kind # "intact" => c = checkpoint_file.kind
               /\ checkpoint_file' = [checkpoint_file EXCEPT !.kind = c]
          ELSE /\ c = "intact"
               /\ UNCHANGED checkpoint_file
       /\ workers' = [workers EXCEPT ![w] = [Emit(r, evs) EXCEPT !.pc = "loop"]]
       /\ output_queue' = Put(output_queue, evs)
       /\ IF load
          THEN /\ total_cycles' = cp.total_cycles
               /\ consecutive_completion_signals' =
                      cp.consecutive_completion_signals
               /\ tdd_mode' = cp.tdd_mode
               /\ architect_llm' = cp.architect_llm
               /\ current_architect' = cp.current_architect
               /\ fallback_active' = cp.fallback_active
          ELSE UNCHANGED <<total_cycles, consecutive_completion_signals,
                           tdd_mode, architect_llm, current_architect,
                           fallback_active>>
       /\ UNCHANGED claude_call
       /\ UNCHANGED <<envVars, mode, status, working_directory, project_plan,
                      is_running, original_architect, fallback_reason, model,
                      last_configured, session_file, main, cli_monitoring,
                      cntVars>>

\* The model follows MaxCycles counted cycles from the start of a build, or
\* from the late checkpoint.
CyclesLeft ==
    \/ total_cycles < MaxCycles
    \/ /\ total_cycles >= LateCycles
       /\ total_cycles < LateCycles + MaxCycles

\* One pass through the top of the while loop: the is_running test, the
\* cycle counter, the periodic checkpoint and the caps, then
\* handle_development_step up to its provider call (3518-3653), or through
\* to the end of the cycle when the step ends before that call.
W_LoopTop(w) ==
    LET r == workers[w]
        counts == r.kind \in {"initial", "feedback"}
        tc1 == IF counts THEN total_cycles + 1 ELSE total_cycles
        savecp == r.kind = "feedback" /\ tc1 % CheckpointEvery = 0
        cap == counts /\ tc1 > max_total_cycles
        errcap == /\ r.kind = "initial" /\ ~cap
                  /\ r.consecutive_errors >= MaxConsecutiveErrors
        cpf == IF cap /\ r.kind = "feedback" THEN NoFile
               ELSE IF savecp THEN [CheckpointData EXCEPT !.total_cycles = tc1]
               ELSE checkpoint_file
        sv == [SavedState EXCEPT !.total_cycles = tc1]
        r0 == [r EXCEPT !.resp = NoResp, !.call = NoCall]
        evs == <<IF cap THEN "[INFO]loop_limit"
                 ELSE IF errcap THEN "[INFO]error_limit" ELSE "[THINKING]">>
    IN /\ r.pc = "loop"
       /\ IF ~is_running
          THEN /\ workers' = [workers EXCEPT ![w].pc = "exit"]
               /\ UNCHANGED <<loopVars, output_queue, fileVars>>
          ELSE /\ CyclesLeft
               /\ total_cycles' = tc1
               /\ IF cap \/ errcap
                  THEN /\ is_running' = FALSE
                       /\ output_queue' = Put(output_queue, evs)
                       /\ workers' = [workers EXCEPT ![w] =
                                        [Emit(r0, evs) EXCEPT !.pc = "exit"]]
                       /\ checkpoint_file' = cpf
                       /\ UNCHANGED <<consecutive_completion_signals,
                                      session_file>>
                  ELSE IF working_directory = Null
                  THEN Post(w, r0, NoResp, <<"no_dir_chunk">>, cpf, sv)
                  ELSE IF tdd_mode
                  THEN Post(w, r0, ErrorResp("unbound_local"),
                            <<"error_chunk">>, cpf, sv)
                  ELSE /\ output_queue' = Put(output_queue, evs)
                       /\ workers' = [workers EXCEPT ![w] =
                            [Emit(r0, evs) EXCEPT
                               !.pc = "call",
                               !.call = [NoCall EXCEPT !.target = PrimaryTarget]]]
                       /\ checkpoint_file' = cpf
                       /\ UNCHANGED <<is_running,
                                      consecutive_completion_signals,
                                      session_file>>
       /\ UNCHANGED claude_call
       /\ UNCHANGED <<envVars, sessVars, provVars, main, cli_monitoring,
                      cntVars>>

\* The first provider answers or fails (lines 2226-2259, 2273-2305); on an
\* answer the instruction is echoed and the execution agent spawned, on an
\* exception the step reports it (3816) and the cycle ends.
W_CallReturn(w, o) ==
    LET r == workers[w]
        t == r.call.target
        d == PrimaryDecision(t, o)
        r1 == [r EXCEPT !.call = PrimaryCallRec(r.call, o)]
        evs == IF IsFallback(d) THEN PrimaryEvents(t, o)
                                ELSE <<"[CLAUDE_PROMPT]">>
    IN /\ r.pc = "call"
       /\ o \in OutcomesOf(t)
       /\ PrimaryProv(t, o)
       /\ IF IsFallback(d) \/ d = "returned"
          THEN /\ output_queue' = Put(output_queue, evs)
               /\ workers' = [workers EXCEPT ![w] =
                    [Emit(r1, evs) EXCEPT
                        !.pc = IF IsFallback(d) THEN "fbcall" ELSE "exec"]]
               /\ UNCHANGED <<is_running, consecutive_completion_signals,
                              fileVars>>
          ELSE Post(w, r1, ErrorResp(d), <<"error_chunk">>, checkpoint_file,
                    SavedState)
       /\ UNCHANGED claude_call
       /\ UNCHANGED <<envVars, sessVars, total_cycles, architect_llm,
                      original_architect, model, last_configured, main,
                      cli_monitoring, cntVars>>

\* The retried call against the fallback provider answers or fails
\* (lines 2381-2392, 2414-2429).
W_FallbackReturn(w, o) ==
    LET r == workers[w]
        d == FallbackDecision(r.call.fb, o)
        r1 == [r EXCEPT !.call = FallbackCallRec(r.call, o)]
        evs == FallbackEvents(r.call, o) \o <<"[CLAUDE_PROMPT]">>
    IN /\ r.pc = "fbcall"
       /\ o \in OutcomesOf(r.call.fb)
       /\ FallbackProv(r.call)
       /\ IF d = "returned"
          THEN /\ output_queue' = Put(output_queue, evs)
               /\ workers' = [workers EXCEPT ![w] =
                                [Emit(r1, evs) EXCEPT !.pc = "exec"]]
               /\ UNCHANGED <<is_running, consecutive_completion_signals,
                              fileVars>>
          ELSE Post(w, r1, ErrorResp(d), <<"error_chunk">>, checkpoint_file,
                    SavedState)
       /\ UNCHANGED claude_call
       /\ UNCHANGED <<envVars, sessVars, total_cycles, architect_llm,
                      original_architect, model, last_configured, main,
                      cli_monitoring, cntVars>>

\* The execution agent of handle_development_step (3682-3739).  The worker
\* is at "exec" before Popen, at "poll" in the while loop of 3701, at
\* "stopping" between that loop, left because is_running was false, and the
\* test of 3721, and at "waiting" in communicate() with a child that was not
\* terminated.
ExecPcs == {"exec", "poll", "stopping", "waiting"}

\* Line 3721: `if process.poll() is None and not self.is_running`.
TerminateNever(alive, running) == FALSE
TerminateWanted(alive, running) == alive /\ ~running

\* subprocess.Popen succeeds (3682-3696).
W_Spawn(w) ==
    /\ workers[w].pc = "exec"
    /\ workers' = [workers EXCEPT ![w].pc = "poll", ![w].child = "running"]
    /\ UNCHANGED claude_call
    /\ UNCHANGED <<envVars, sessVars, loopVars, provVars, output_queue,
                   fileVars, main, cli_monitoring, cntVars>>

\* The while test of 3701 finds the child alive and is_running false.
W_PollStop(w) ==
    /\ workers[w].pc = "poll"
    /\ workers[w].child = "running"
    /\ ~is_running
    /\ workers' = [workers EXCEPT ![w].pc = "stopping"]
    /\ UNCHANGED claude_call
    /\ UNCHANGED <<envVars, sessVars, loopVars, provVars, output_queue,
                   fileVars, main, cli_monitoring, cntVars>>

\* The test of 3721 does not ask for the termination of a child that is
\* still alive: the worker blocks in communicate() (3726).
W_Wait(w) ==
    /\ workers[w].pc = "stopping"
    /\ workers[w].child = "running"
    /\ ~TerminateWanted(TRUE, is_running)
    /\ workers' = [workers EXCEPT ![w].pc = "waiting"]
    /\ UNCHANGED claude_call
    /\ UNCHANGED <<envVars, sessVars, loopVars, provVars, output_queue,
                   fileVars, main, cli_monitoring, cntVars>>

\* The end of the execution agent and the rest of the cycle (3721-3817, then
\* the loop's own code): the spawn fails; or the child exits by itself and
\* the worker, at whichever of the three places it is, collects it with
\* communicate(); or the test of 3721 terminates the child and communicate()
\* collects it. The answer's text carries a question, a completion marker,
\* an error, in any combination.
W_Exec(w, how, q, c, e, sig) ==
    LET r == workers[w]
        resp == IF how = "spawn_failed" THEN ErrorResp("spawn_failed")
                ELSE [question |-> q, completion |-> c,
                      error |-> (e \/ how = "terminated"),
                      sig |-> IF how = "terminated" THEN "terminated"
                              ELSE IF e THEN sig ELSE Null]
        evs == IF how = "spawn_failed" THEN <<"error_chunk">>
               ELSE IF how = "terminated" THEN <<"[INTERRUPTED]", "[CYCLE_COMPLETE]">>
               ELSE <<"chunk", "[CYCLE_COMPLETE]">>
    IN /\ CASE how = "spawn_failed" -> r.pc = "exec"
            [] how = "finished"     -> /\ r.pc \in {"poll", "stopping", "waiting"}
                                       /\ r.child = "running"
            [] how = "terminated"   -> /\ r.pc = "stopping"
                                       /\ TerminateWanted(r.child = "running",
                                                          is_running)
       /\ how = "spawn_failed" => ~q /\ ~c /\ ~e
       /\ (~e \/ how # "finished") => sig = "errA"
       \* flags no loop of this kind reads are not enumerated: Post drops them
       /\ r.kind # "initial" => ~e
       /\ r.kind = "recovery" => ~q /\ ~c
       /\ Post(w, [r EXCEPT !.call = NoCall, !.child = "none"], resp, evs,
               checkpoint_file, SavedState)
       /\ UNCHANGED claude_call
       /\ UNCHANGED <<envVars, sessVars, total_cycles, provVars, main,
                      cli_monitoring, cntVars>>

\* After the while loop: the closing notice and the end-of-stream sentinel.
W_Exit(w) ==
    LET r == workers[w]
        evs == <<IF r.kind = "recovery" THEN "[INFO]recovery_ended"
                 ELSE "[INFO]paused", "None">>
    IN /\ r.pc = "exit"
       /\ workers' = [workers EXCEPT ![w] =
            [Emit(r, evs) EXCEPT !.pc = "done", !.consecutive_errors = 0,
                                 !.last_error_message = Null,
                                 !.streak = 0, !.streak_sig = Null,
                                 !.resp = NoResp, !.call = NoCall]]
       /\ output_queue' = Put(output_queue, evs)
       /\ UNCHANGED claude_call
       /\ UNCHANGED <<envVars, sessVars, loopVars, provVars, fileVars, main,
                      cli_monitoring, cntVars>>

\* ------------------------------------------------------ the front-end thread
\* What process_user_input's first save_state writes when the front-end has
\* just set tdd_mode to tdd.
FirstSave(tdd) == [SavedState EXCEPT !.tdd_mode = tdd]

Spawn(kind) == workers' = [workers EXCEPT ![FreeSlot] = NewWorker(kind)]

\* start_development_phase without its working-directory test.
StartGuardNone(wd) == FALSE
\* start_development_phase refuses to start when no directory is set.
StartGuard(wd) == wd = Null

BrainstormFallbackEvents ==
    <<"user_message", "[ARCHITECT_CHANGE]", "chunk", "fallback_success",
      "None", "None">>

\* handle_brainstorming followed by process_user_input's sentinel, for the
\* selected architect a, chat session m and Gemini outcome o.
HandleBrainstorming(trigger, mon, a, m, o, tdd) ==
    LET usable == gemini_available /\ m
        fb == /\ a = "gemini" /\ ~fallback_active
              /\ (~usable \/ RecoverableFailure(o))
        et == IF usable THEN DetectErrorType(o) ELSE "api_key_invalid"
        failed == a = "gemini" /\ usable /\ o # "ok" /\ ~fb
        \* the provider the turn calls first, and current_architect then
        first == IF a = "gemini" /\ usable THEN "gemini" ELSE "claude"
        rec == [NoCall EXCEPT
                  !.target = first, !.outcome = o, !.fa = fallback_active,
                  !.cur = IF fb /\ ~usable THEN "claude" ELSE current_architect,
                  !.result = IF failed THEN "error_text" ELSE "returned",
                  !.fb = IF fb /\ usable THEN "claude" ELSE Null,
                  !.et = IF fb THEN et ELSE Null]
    IN /\ (a # "gemini" \/ ~usable) => o = "ok"
       /\ IF fb
          THEN /\ fallback_active' = TRUE
               /\ current_architect' = "claude"
               /\ fallback_reason' = et
               /\ output_queue' = Put(output_queue, BrainstormFallbackEvents)
          ELSE /\ UNCHANGED <<fallback_active, current_architect,
                              fallback_reason>>
               /\ output_queue' = Put(output_queue,
                     <<IF failed THEN "error_chunk" ELSE "chunk", "None">>)
       /\ session_file' = FirstSave(tdd)
       /\ UNCHANGED <<mode, loopVars, workers, project_plan>>
       /\ main' = [IdleMain EXCEPT !.trig = trigger, !.dlg = TRUE, !.call = rec]
       \* cli.py 236: the monitoring loop is entered on the CLI's phrase
       /\ cli_monitoring' = (mon /\ is_running)

\* process_user_input (2686-2745) with start_development_phase up to its
\* provider call (2842-2877).
ProcessUserInput(trigger, mon, a, m, o, tdd) ==
    IF trigger /\ mode = "BRAINSTORMING"
    THEN /\ o = "ok"
         /\ IF StartGuard(working_directory)
            THEN /\ output_queue' = Put(output_queue,
                                        <<"[THINKING]", "dir_error", "None">>)
                 /\ main' = [IdleMain EXCEPT !.trig = TRUE]
                 /\ UNCHANGED <<mode, total_cycles,
                                consecutive_completion_signals>>
            ELSE /\ output_queue' = Put(output_queue, <<"[THINKING]">>)
                 /\ mode' = "DEVELOPMENT"
                 /\ consecutive_completion_signals' = 0
                 /\ total_cycles' = 0
                 /\ main' = [pc |-> "call", trig |-> TRUE, mon |-> mon,
                             dlg |-> FALSE, load |-> "none",
                             backup |-> FALSE,
                             call |-> [NoCall EXCEPT !.target = TargetFor(m)]]
         /\ session_file' = FirstSave(tdd)
         /\ cli_monitoring' = FALSE
         /\ UNCHANGED <<is_running, workers, project_plan, fallback_active,
                        current_architect, fallback_reason>>
    ELSE IF mode = "DEVELOPMENT" /\ ~is_running
    THEN /\ o = "ok"
         /\ HasFreeSlot
         /\ output_queue' = Put(output_queue,
                                <<"[USER_FEEDBACK]", "[INFO]resuming">>)
         /\ consecutive_completion_signals' = 0
         /\ is_running' = TRUE
         /\ Spawn("feedback")
         /\ session_file' = FirstSave(tdd)
         /\ main' = [IdleMain EXCEPT !.trig = trigger]
         /\ cli_monitoring' = mon
         /\ UNCHANGED <<mode, total_cycles, project_plan, fallback_active,
                        current_architect, fallback_reason>>
    ELSE HandleBrainstorming(trigger, mon, a, m, o, tdd)

\* cli.py main loop: one input line handed to process_user_input; the CLI
\* can take input whenever it is not inside its monitoring loop.
CliInput(trigger, mon, o) ==
    /\ frontend = "cli"
    /\ main.pc = "idle"
    /\ ~(cli_monitoring /\ is_running)
    /\ inputs < MaxInputs
    /\ inputs' = inputs + 1
    /\ mon => trigger
    /\ ProcessUserInput(trigger, mon, architect_llm, model, o, tdd_mode)
    /\ UNCHANGED claude_call
    /\ UNCHANGED <<envVars, status, working_directory, tdd_mode, architect_llm,
                   original_architect, model, last_configured,
                   checkpoint_file, restarts, dirsets>>

\* cli.py 269-273: Ctrl+C inside the monitoring loop.
CliStop ==
    /\ frontend = "cli"
    /\ cli_monitoring /\ is_running
    /\ is_running' = FALSE
    /\ cli_monitoring' = FALSE
    /\ UNCHANGED claude_call
    /\ UNCHANGED <<envVars, sessVars, total_cycles,
                   consecutive_completion_signals, provVars, output_queue,
                   fileVars, main, workers, cntVars>>

\* web_app.py chat (73-132): get_orchestrator with the request's architect,
\* tdd_mode set from the request, then process_user_input.
WebChat(a, tdd, trigger, o) ==
    /\ frontend = "web"
    /\ main.pc = "idle"
    /\ inputs < MaxChats
    /\ inputs' = inputs + 1
    /\ GetOrchestrator(a)
    /\ tdd_mode' = tdd
    /\ ProcessUserInput(trigger, FALSE, a,
                        IF a # last_configured THEN SetupModel(a) ELSE model,
                        o, tdd)
    /\ UNCHANGED claude_call
    /\ UNCHANGED <<envVars, status, working_directory, original_architect,
                   checkpoint_file, restarts, dirsets>>

\* start_development_phase after _get_architect_response ended with result
\* d (2877-2898): the plan is stored and the initial loop started, or the
\* exception is reported and the phase reverts.
FinishStart(rec, d, evs0) ==
    /\ IF d = "returned"
       THEN /\ HasFreeSlot
            /\ project_plan' = "plan"
            /\ output_queue' = Put(output_queue,
                                   evs0 \o <<"prp_output", "engines_started">>)
            /\ is_running' = TRUE
            /\ Spawn("initial")
            /\ cli_monitoring' = main.mon
            /\ UNCHANGED mode
       ELSE /\ output_queue' = Put(output_queue, evs0 \o <<"prp_error", "None">>)
            /\ mode' = "BRAINSTORMING"
            /\ UNCHANGED <<project_plan, is_running, workers, cli_monitoring>>
    /\ main' = [pc |-> "idle", call |-> rec, trig |-> TRUE, mon |-> FALSE,
                dlg |-> FALSE, load |-> "none", backup |-> FALSE]

\* The plan request's first provider answers or fails.
M_CallReturn(o) ==
    LET t == main.call.target
        d == PrimaryDecision(t, o)
        rec == PrimaryCallRec(main.call, o)
    IN /\ main.pc = "call"
       /\ o \in OutcomesOf(t)
       /\ PrimaryProv(t, o)
       /\ IF IsFallback(d)
          THEN /\ main' = [main EXCEPT !.pc = "fbcall", !.call = rec]
               /\ output_queue' = Put(output_queue, PrimaryEvents(t, o))
               /\ UNCHANGED <<mode, project_plan, is_running, workers,
                              cli_monitoring>>
          ELSE FinishStart(rec, d, <<>>)
       /\ UNCHANGED claude_call
       /\ UNCHANGED <<envVars, status, working_directory, tdd_mode,
                      total_cycles, consecutive_completion_signals,
                      architect_llm, original_architect, model,
                      last_configured, fileVars, cntVars>>

\* The plan request's retried call answers or fails.
M_FallbackReturn(o) ==
    LET d == FallbackDecision(main.call.fb, o)
    IN /\ main.pc = "fbcall"
       /\ o \in OutcomesOf(main.call.fb)
       /\ FallbackProv(main.call)
       /\ FinishStart(FallbackCallRec(main.call, o), d,
                      FallbackEvents(main.call, o))
       /\ UNCHANGED claude_call
       /\ UNCHANGED <<envVars, status, working_directory, tdd_mode,
                      total_cycles, consecutive_completion_signals,
                      architect_llm, original_architect, model,
                      last_configured, fileVars, cntVars>>

\* ------------------------------------------------------------ specification
Outcomes == GeminiOutcomes \cup ClaudeOutcomes

Next ==
    \/ \E d \in Dirs : SetDirectory(d)
    \/ \E a \in Providers, c \in FileKinds : Restart(a, c)
    \/ \E t \in BOOLEAN, m \in BOOLEAN, o \in GeminiOutcomes : CliInput(t, m, o)
    \/ CliStop
    \/ \E a \in Providers, tdd \in BOOLEAN, t \in BOOLEAN, o \in GeminiOutcomes :
           WebChat(a, tdd, t, o)
    \/ \E o \in Outcomes : M_CallReturn(o)
    \/ \E o \in Outcomes : M_FallbackReturn(o)
    \/ \E w \in Slots, c \in CheckpointKinds : W_Start(w, c)
    \/ \E w \in Slots : W_LoopTop(w)
    \/ \E w \in Slots, o \in Outcomes : W_CallReturn(w, o)
    \/ \E w \in Slots, o \in Outcomes : W_FallbackReturn(w, o)
    \/ \E w \in Slots, how \in {"spawn_failed", "finished", "terminated"},
          q \in BOOLEAN, c \in BOOLEAN, e \in BOOLEAN, sig \in ErrSigs :
           W_Exec(w, how, q, c, e, sig)
    \/ \E w \in Slots : W_Spawn(w)
    \/ \E w \in Slots : W_PollStop(w)
    \/ \E w \in Slots : W_Wait(w)
    \/ \E w \in Slots : W_Exit(w)

Spec == Init /\ [][Next]_vars

TypeOK ==
    /\ mode \in {"BRAINSTORMING", "DEVELOPMENT"}
    /\ current_architect \in Providers
    /\ total_cycles \in 0..MaxCycles \cup LateCycles..(LateCycles + MaxCycles)
    /\ Len(output_queue) <= MaxQueue

\* ---------------------------------------------- _run_claude_with_prompt
\* The helper that runs the claude command line for a provider call, with
\* its retries.  It is specified on its own: ClaudeSpec draws the arguments
\* of one logical call from the sets below and steps through its attempts.

\* timeout= as the callers pass it (2273, 2348, 2382: 180; 2792, 2828: 60)
CallerTimeouts == {60, 180}
\* lengths of the prompt: one of low risk and one for each higher risk
PromptLengths == {900, 4500, 5500, 7500, 20000}
timeout_levels == <<60, 120, 300>>

Min(a, b) == IF a <= b THEN a ELSE b

\* TimeoutPredictor.performance_benchmarks, in the order of its keys
performance_benchmarks ==
    << [max |-> 1000, time |-> 12, risk |-> "LOW",      timeout |-> 60],
       [max |-> 2000, time |-> 14, risk |-> "LOW",      timeout |-> 60],
       [max |-> 3000, time |-> 18, risk |-> "MEDIUM",   timeout |-> 90],
       [max |-> 4000, time |-> 25, risk |-> "MEDIUM",   timeout |-> 120],
       [max |-> 5000, time |-> 35, risk |-> "HIGH",     timeout |-> 150],
       [max |-> 6000, time |-> 50, risk |-> "HIGH",     timeout |-> 180],
       [max |-> 7000, time |-> 70, risk |-> "CRITICAL", timeout |-> 240],
       [max |-> 8000, time |-> 90, risk |-> "CRITICAL", timeout |-> 300] >>

\* safety_multiplier, in tenths
SafetyMultiplier(risk) ==
    CASE risk = "LOW" -> 12 [] risk = "MEDIUM" -> 14 [] risk = "HIGH" -> 16
      [] risk = "CRITICAL" -> 18 [] OTHER -> 20

\* predict_performance: the first row whose threshold holds the prompt, or
\* the extrapolation beyond 8000 characters; then the safety buffer, never
\* below the row's timeout.
PredictPerformance(prompt_length) ==
    LET rows == {i \in DOMAIN performance_benchmarks :
                    prompt_length <= performance_benchmarks[i].max}
        extra_time == ((prompt_length - 8000) \div 1000) * 15
        best_match ==
            IF rows # {}
            THEN performance_benchmarks[
                     CHOOSE i \in rows : \A j \in rows : i <= j]
            ELSE [max |-> prompt_length, time |-> 90 + extra_time,
                  risk |-> "EXTREME",
                  timeout |-> Min(300, 90 + extra_time + 60)]
        safe_timeout ==
            (best_match.time * SafetyMultiplier(best_match.risk)) \div 10
    IN [predicted_time |-> best_match.time,
        risk_level |-> best_match.risk,
        recommended_timeout |->
            IF safe_timeout < best_match.timeout THEN best_match.timeout
                                                 ELSE safe_timeout]

\* should_skip_lower_timeouts: <<should_skip, recommended_timeout>>
ShouldSkipLowerTimeouts(prompt_length) ==
    LET prediction == PredictPerformance(prompt_length)
    IN IF prediction.risk_level \in {"HIGH", "CRITICAL", "EXTREME"}
       THEN <<TRUE, prediction.recommended_timeout>>
       ELSE <<FALSE, 60>>

\* The timeout of one attempt (1640-1658): the predictor's on the first
\* attempt when it advises to skip the lower levels, the caller's on the
\* first attempt otherwise, the ladder's without a predictor and on retries.
CurrentTimeout(timeout, retry_count, predictor, prompt_length) ==
    IF predictor /\ retry_count = 0
    THEN IF ShouldSkipLowerTimeouts(prompt_length)[1]
         THEN ShouldSkipLowerTimeouts(prompt_length)[2]
         ELSE timeout
    ELSE timeout_levels[Min(retry_count, Len(timeout_levels) - 1) + 1]

\* ------------------------------------------------ _classify_claude_error
\* error_diagnostics in the order of the dictionary: indicator and type
error_diagnostics_permanent_first ==
    << <<"permission", "permanent">>, <<"authentication", "permanent">>,
       <<"401", "permanent">>, <<"not found", "permanent">>,
       <<"invalid", "permanent">>,
       <<"timeout", "temporary">>, <<"connection", "temporary">>,
       <<"network", "temporary">>, <<"rate limit", "temporary">>,
       <<"server error", "temporary">>, <<"503", "temporary">> >>
error_diagnostics ==
    << <<"timeout", "temporary">>, <<"connection", "temporary">>,
       <<"network", "temporary">>, <<"rate limit", "temporary">>,
       <<"server error", "temporary">>, <<"503", "temporary">>,
       <<"permission", "permanent">>, <<"authentication", "permanent">>,
       <<"401", "permanent">>, <<"not found", "permanent">>,
       <<"invalid", "permanent">> >>

TemporarySignatures ==
    {"timeout", "connection", "network", "rate limit", "server error", "503"}
PermanentSignatures ==
    {"permission", "authentication", "401", "not found", "invalid"}
\* A stderr text is a sequence of fragments: the signatures, two of them
\* as the command line capitalises them, and text that holds no signature.
Fragments == TemporarySignatures \cup PermanentSignatures
                \cup {"Timeout", "Permission", "other"}
MaxStderrLen == 2
RECURSIVE SeqsUpTo(_, _)
SeqsUpTo(S, n) ==
    IF n = 0 THEN {<<>>}
    ELSE LET shorter == SeqsUpTo(S, n - 1)
         IN shorter \cup {Append(s, x) : s \in shorter, x \in S}
\* result.stderr: missing (None), or a text, the empty one included
StderrOutputs ==
    {NoStderr} \cup {[missing |-> FALSE, text |-> s] :
                        s \in SeqsUpTo(Fragments, MaxStderrLen)}

\* str.lower on a fragment
Lower(f) == CASE f = "Timeout" -> "timeout"
              [] f = "Permission" -> "permission"
              [] OTHER -> f
\* indicator in text
Contains(text, indicator) == \E i \in DOMAIN text : text[i] = indicator

RECURSIVE FirstMatch(_, _)
\* the for loop of 1976-1985 from entry i on, and the default of 1989
FirstMatch(i, stderr_lower) ==
    IF i > Len(error_diagnostics) THEN "temporary"
    ELSE IF Contains(stderr_lower, error_diagnostics[i][1])
         THEN error_diagnostics[i][2]
         ELSE FirstMatch(i + 1, stderr_lower)

ClassifyClaudeError(stderr_output) ==
    LET stderr_lower ==
            IF stderr_output.missing \/ stderr_output.text = <<>> THEN <<>>
            ELSE [i \in DOMAIN stderr_output.text |->
                      Lower(stderr_output.text[i])]
    IN FirstMatch(1, stderr_lower)

\* ------------------------------------------------------ one logical call
MaxRetriesArg == 3
\* The calls as they are entered: retry_count 0, max_retries 3 unless given.
ClaudeCalls ==
    {[NoClaudeCall EXCEPT !.pc = "enter", !.timeout = t, !.predictor = p,
                          !.prompt_length = n, !.max_retries = m] :
        t \in CallerTimeouts, p \in BOOLEAN, n \in PromptLengths,
        m \in 0..MaxRetriesArg}

RetryAlways(retry_count, max_retries) == TRUE
\* the test of 1763, 1824 and 1874
RetryAllowed(retry_count, max_retries) == retry_count < max_retries
RetryOnAnyError(error_type, retry_count, max_retries) ==
    RetryAllowed(retry_count, max_retries)
\* the test of 1824
RetryOnError(error_type, retry_count, max_retries) ==
    error_type = "temporary" /\ RetryAllowed(retry_count, max_retries)

SessionVars == <<frontend, gemini_available, sessVars, loopVars, provVars,
                 output_queue, fileVars, thrVars, cntVars>>

\* _run_claude_with_prompt from its entry to subprocess.run (1627-1713): the
\* attempt's timeout is fixed and the command started.
CC_Invoke ==
    /\ claude_call.pc = "enter"
    /\ claude_call' =
         [claude_call EXCEPT
            !.pc = "run",
            !.current_timeout =
                CurrentTimeout(claude_call.timeout, claude_call.retry_count,
                               claude_call.predictor,
                               claude_call.prompt_length),
            !.invocations = @ + 1,
            !.outcome = "none",
            !.stderr = NoStderr,
            !.error_type = "none"]
    /\ UNCHANGED SessionVars

\* subprocess.run ends (1713-1889): with exit code 0, with a non-zero exit
\* code and stderr e, by the timeout, or by not starting (no claude command,
\* or another exception).
CC_Finish(o, e) ==
    LET c == claude_call
        error_type == IF o = "nonzero" THEN ClassifyClaudeError(e)
                                       ELSE "none"
        retry ==
            CASE o = "timeout" -> RetryAllowed(c.retry_count, c.max_retries)
              [] o = "nonzero" ->
                   RetryOnError(error_type, c.retry_count, c.max_retries)
              [] OTHER -> FALSE
    IN /\ c.pc = "run"
       /\ o # "nonzero" => e = NoStderr
       /\ claude_call' =
            [c EXCEPT
               !.outcome = o,
               !.stderr = e,
               !.error_type = error_type,
               !.pc = IF retry THEN "backoff" ELSE "returned",
               !.result = IF retry THEN "none"
                          ELSE CASE o = "ok" -> "stdout"
                                 [] o = "timeout" -> "Errore: timed out"
                                 [] o = "nonzero" -> "Errore: command failed"
                                 [] o = "no_command" -> "Errore: not found"
                                 [] OTHER -> "Errore: unexpected"]
       /\ UNCHANGED SessionVars

\* _retry_claude_with_backoff (2057-2071): the count goes up, the sleep
\* passes, and the helper is entered again with the attempt's timeout.
CC_Retry ==
    /\ claude_call.pc = "backoff"
    /\ claude_call' = [claude_call EXCEPT
                          !.pc = "enter",
                          !.retry_count = @ + 1,
                          !.timeout = claude_call.current_timeout]
    /\ UNCHANGED SessionVars

RunOutcomes == {"ok", "nonzero", "timeout", "no_command", "exception"}

ClaudeInit ==
    /\ InitSession
    /\ frontend = "cli" /\ gemini_available /\ architect_llm = "claude"
    /\ tdd_mode
    /\ claude_call \in ClaudeCalls

ClaudeNext ==
    \/ CC_Invoke
    \/ \E o \in RunOutcomes, e \in StderrOutputs : CC_Finish(o, e)
    \/ CC_Retry

ClaudeSpec == ClaudeInit /\ [][ClaudeNext]_vars
\* The helper runs in the thread that called it and nothing suspends it.
ClaudeLiveSpec == ClaudeSpec /\ WF_vars(ClaudeNext)

\* ------------------------------------------------------------------ claims
Last(q) == q[Len(q)]

\* The steps in which a caller's first provider call ends.
WorkerCallEnds(w) == workers[w].pc = "call" /\ workers'[w].pc # "call"
MainCallEnds == main.pc = "call" /\ main'.pc # "call"
\* The steps in which a worker's cycle ends after its execution agent ran.
CycleEnds(w) == workers[w].pc \in ExecPcs /\ workers'[w].pc \notin ExecPcs
SameProcess == restarts' = restarts

\* C1: once fallback_active is true, a recoverable error of the provider
\* called first by _get_architect_response ends the call with the
\* both-providers-failed exception and leaves current_architect as it was.
C1_NoDoubleFallback ==
    [][SameProcess =>
        /\ \A w \in Slots :
             (/\ WorkerCallEnds(w) /\ fallback_active
              /\ RecoverableFailure(workers'[w].call.outcome))
             => /\ workers'[w].call.result = "both_failed"
                /\ current_architect' = current_architect
        /\ (/\ MainCallEnds /\ fallback_active
            /\ RecoverableFailure(main'.call.outcome))
           => /\ main'.call.result = "both_failed"
              /\ current_architect' = current_architect]_vars

\* C2: at most one Build Loop worker thread is alive at any time.
C2_AtMostOneWorker == Cardinality(AliveWorkers) <= 1

\* C3: a cycle whose answer carries the completion marker and no question
\* stops the worker, sets the status to COMPLETED and deletes the checkpoint.
C3_CompletionThreshold ==
    [][\A w \in Slots :
         (/\ SameProcess /\ CycleEnds(w)
          /\ workers'[w].resp.completion /\ ~workers'[w].resp.question)
         => /\ workers'[w].pc = "exit"
            /\ ~is_running'
            /\ checkpoint_file' = NoFile
            /\ status' = "COMPLETED"]_vars

\* C4: in the loops that run the detectors, a cycle whose answer carries both
\* a question and the completion marker pauses the loop, leaves
\* consecutive_completion_signals and the checkpoint alone, and puts the
\* pause events, not the completion events, on the queue.
C4_QuestionPreemptsCompletion ==
    [][\A w \in Slots :
         (/\ SameProcess /\ CycleEnds(w)
          /\ workers[w].kind \in {"initial", "feedback"}
          /\ workers'[w].resp.question /\ workers'[w].resp.completion)
         => /\ workers'[w].pc = "exit"
            /\ ~is_running'
            /\ consecutive_completion_signals' = consecutive_completion_signals
            /\ checkpoint_file' = checkpoint_file
            /\ LastN(output_queue', 2) = <<"[INFO]question_pause", "[STREAM_END]">>
       ]_vars

\* C5: within one process and one build episode total_cycles never decreases
\* and grows by at most one per step.
C5_MonotonicCycles ==
    [][(SameProcess /\ ~(mode = "BRAINSTORMING" /\ mode' = "DEVELOPMENT"))
       => /\ total_cycles' >= total_cycles
          /\ total_cycles' <= total_cycles + 1]_vars

\* C6: a start trigger in the dialogue phase with no working directory puts
\* the error message and the sentinel and changes neither the phase, the
\* workers, the plan nor the loop counters.
C6_StartRefusedWithoutDirectory ==
    [][(/\ inputs' = inputs + 1 /\ main'.trig
        /\ mode = "BRAINSTORMING" /\ working_directory = Null)
       => /\ mode' = "BRAINSTORMING"
          /\ main'.pc = "idle"
          /\ workers' = workers
          /\ is_running' = is_running
          /\ project_plan' = project_plan
          /\ total_cycles' = total_cycles
          /\ consecutive_completion_signals' = consecutive_completion_signals
          /\ LastN(output_queue', 2) = <<"dir_error", "None">>]_vars

\* A start trigger has just been refused.
C6_Witness ==
    /\ main.trig /\ main.pc = "idle"
    /\ mode = "BRAINSTORMING" /\ working_directory = Null
    /\ LastN(output_queue, 2) = <<"dir_error", "None">>
    /\ inputs > 0

\* C7: reloading a persisted session with status RUNNING in the build phase
\* sets status RUNNING and starts a recovery worker, whose first event is the
\* recovery notice.
C7_ScenarioD ==
    [][/\ (/\ restarts' = restarts + 1
           /\ session_file.status = "RUNNING"
           /\ session_file.mode = "DEVELOPMENT")
          => /\ status' = "RUNNING"
             /\ \E w \in Slots : /\ workers'[w].kind = "recovery"
                                 /\ workers'[w].pc = "start"
       /\ \A w \in Slots :
            (workers'[w].kind = "recovery" /\ workers'[w].first # Null)
            => workers'[w].first = "recovery_notice"]_vars

\* The provider fields name `to` and the queue's last event is the signal.
Announced(to) ==
    /\ fallback_active /\ current_architect = to
    /\ Len(output_queue) > 0 /\ Last(output_queue) = "[ARCHITECT_CHANGE]"

\* C8: when a failed call makes _get_architect_response switch provider, the
\* provider fields are changed and [ARCHITECT_CHANGE] is on the queue at the
\* moment the retried call is issued, in both directions.
C8_ChangeBeforeRetry ==
    [][SameProcess =>
        /\ \A w \in Slots :
             (workers[w].pc = "call" /\ workers'[w].pc = "fbcall")
             => Announced(workers[w].call.fb)'
        /\ (main.pc = "call" /\ main'.pc = "fbcall")
           => Announced(main.call.fb)']_vars

\* A worker waits for the retried call Claude -> Gemini, the switch announced.
C8_Witness ==
    \E w \in Slots : /\ workers[w].pc = "fbcall"
                     /\ workers[w].call.fb = "gemini"
                     /\ workers[w].call.target = "claude"
                     /\ Announced("gemini")

\* C9: fallback_active implies current_architect differs from
\* original_architect.
C9_FallbackMeansSwitched ==
    fallback_active => current_architect # original_architect

\* C10: a call that succeeds while fallback_active is true clears it, and
\* nothing else does.
C10_ClearedBySuccessOnly ==
    [][SameProcess =>
        /\ \A w \in Slots :
             (/\ WorkerCallEnds(w) /\ fallback_active
              /\ workers'[w].call.outcome = "ok")
             => ~fallback_active'
        /\ (MainCallEnds /\ fallback_active /\ main'.call.outcome = "ok")
           => ~fallback_active'
        /\ (fallback_active /\ ~fallback_active')
           => \/ \E w \in Slots : /\ WorkerCallEnds(w)
                                  /\ workers'[w].call.outcome = "ok"
              \/ MainCallEnds /\ main'.call.outcome = "ok"]_vars

\* The steps in which a caller's retried call ends.
WorkerRetryEnds(w) == workers[w].pc = "fbcall" /\ workers'[w].pc # "fbcall"
MainRetryEnds == main.pc = "fbcall" /\ main'.pc # "fbcall"

\* C11: when the retried call against the fallback provider fails too, the
\* call ends with the both-providers-failed exception, the failure is not
\* handed to the caller as the answer, and current_architect stays.
C11_RetryFailureIsTerminal ==
    [][SameProcess =>
        /\ \A w \in Slots :
             (WorkerRetryEnds(w) /\ workers'[w].call.fbo # "ok")
             => /\ workers'[w].call.result = "both_failed"
                /\ current_architect' = current_architect
        /\ (MainRetryEnds /\ main'.call.fbo # "ok")
           => /\ main'.call.result = "both_failed"
              /\ current_architect' = current_architect]_vars

\* The steps in which a worker's provider call ends with the exception d.
CallRaises(w, d) ==
    /\ workers[w].pc \in {"call", "fbcall"}
    /\ workers'[w].pc \notin {"call", "fbcall"}
    /\ workers'[w].call.result = d

\* C12: a cycle whose provider call ends with the both-providers-failed
\* exception is the worker's last: the worker does not go back to the top of
\* its loop.
C12_ExhaustedStopsLoop ==
    [][\A w \in Slots :
         (SameProcess /\ CallRaises(w, "both_failed"))
         => workers'[w].pc \in {"exit", "dead"}]_vars

\* The steps a worker takes from the top of its loop.
LoopStep(w) == /\ workers[w].pc = "loop" /\ is_running
               /\ workers'[w] # workers[w]

\* C13: a worker of any kind whose last three cycles ended in the same error
\* starts no further cycle: its next pass through the loop leaves the loop
\* with the repeated-error notice.
C13_RepeatedErrorStops ==
    [][\A w \in Slots :
         (/\ SameProcess /\ LoopStep(w)
          /\ workers[w].streak >= MaxConsecutiveErrors)
         => /\ workers'[w].pc = "exit"
            /\ Last(output_queue') = "[INFO]error_limit"]_vars

\* C14: every cycle a worker of any kind starts is counted in total_cycles,
\* and a pass that finds the counter above max_total_cycles leaves the loop.
C14_CycleCapEveryWorker ==
    [][\A w \in Slots :
         (SameProcess /\ LoopStep(w))
         => /\ total_cycles' = total_cycles + 1
            /\ total_cycles' > max_total_cycles => workers'[w].pc = "exit"
       ]_vars

\* The steps in which a worker's thread ends.
ThreadEnds(w) == Alive(w) /\ ~Alive(w)' /\ SameProcess

\* C15: a worker thread that ends has put exactly one sentinel, and the
\* sentinel is the last event it put.
C15_OneSentinelLast ==
    [][\A w \in Slots :
         ThreadEnds(w) => /\ workers'[w].sentinels = 1
                          /\ Len(output_queue') > 0
                          /\ Last(output_queue') = "None"]_vars

\* C16: an input served while the phase is DEVELOPMENT and a worker runs
\* puts nothing on the queue and leaves the provider fields alone.
C16_NoDialogueWhileWorkerRuns ==
    [][(/\ inputs' = inputs + 1
        /\ mode = "DEVELOPMENT" /\ is_running /\ AliveWorkers # {})
       => /\ output_queue' = output_queue
          /\ fallback_active' = fallback_active
          /\ current_architect' = current_architect]_vars

\* C17: while the worker started by start_development_phase is alive the
\* status is RUNNING.
C17_RunningWhileInitialWorker ==
    \A w \in Slots :
        (Alive(w) /\ workers[w].kind = "initial") => status = "RUNNING"

\* C18: status RUNNING implies that a worker thread is alive.
C18_RunningImpliesWorker == status = "RUNNING" => AliveWorkers # {}

\* C19: phase DEVELOPMENT implies a working directory and a plan.
C19_BuildNeedsDirectoryAndPlan ==
    mode = "DEVELOPMENT" => (working_directory # Null /\ project_plan # Null)

\* The steps in which a worker's cycle ends in a provider failure: the call
\* raised one of its two exceptions.
CycleFails(w) == \E d \in {"both_failed", "user_message"} : CallRaises(w, d)

\* C20: a failure inside a cycle does not end the worker thread with an
\* exception: the worker goes on to the next pass or to its exit path.
C20_FailureStaysInsideWorker ==
    [][\A w \in Slots :
         (SameProcess /\ CycleFails(w)) => workers'[w].pc \in {"loop", "exit"}
       ]_vars

\* The steps in which an input starts a resumed worker, which takes the
\* input for the reply to a question.
StartsResumed(w) ==
    /\ inputs' = inputs + 1
    /\ workers'[w] # workers[w]
    /\ workers'[w].kind = "feedback" /\ workers'[w].pc = "start"

\* C21: once a worker has ended by its own exit path (completion, a cap or a
\* stop) and none is left, with no answer that carried a question, the next
\* input is not taken for the reply to a question: it starts no resumed
\* worker.
C21_OnlyQuestionAwaitsReply ==
    [][(/\ \E w \in Slots : workers[w].pc = "done"
        /\ \A w \in Slots : ~Alive(w) /\ ~workers[w].resp.question)
       => \A w \in Slots : ~StartsResumed(w)]_vars

\* An outcome that is a failure classified generic.
GenericFailure(o) ==
    o \in (Outcomes \ {"ok"}) /\ DetectErrorType(o) = "generic_error"

ProviderStateUnchanged ==
    /\ current_architect' = current_architect
    /\ fallback_active' = fallback_active
    /\ fallback_reason' = fallback_reason

\* C22: a provider call that fails with a generic error, on the build path,
\* the plan request or a dialogue turn, leaves current_architect,
\* fallback_active and fallback_reason alone and is not retried against the
\* other provider.
C22_GenericNeverFallsBack ==
    [][SameProcess =>
        /\ \A w \in Slots :
             (WorkerCallEnds(w) /\ GenericFailure(workers'[w].call.outcome))
             => /\ ProviderStateUnchanged
                /\ workers'[w].pc # "fbcall" /\ workers'[w].call.fb = Null
        /\ (MainCallEnds /\ GenericFailure(main'.call.outcome))
           => /\ ProviderStateUnchanged
              /\ main'.pc # "fbcall" /\ main'.call.fb = Null
        /\ (inputs' = inputs + 1 /\ main'.dlg
            /\ GenericFailure(main'.call.outcome))
           => /\ ProviderStateUnchanged
              /\ main'.call.fb = Null]_vars

\* A worker's call to Gemini has failed with a generic error while no
\* fallback was active, and a dialogue turn's call has too.
C22_Witness ==
    /\ \E w \in Slots : /\ workers[w].call.target = "gemini"
                        /\ workers[w].call.outcome = "generic_error"
                        /\ ~workers[w].call.fa
                        /\ workers[w].call.result = "user_message"
    /\ main.dlg /\ main.call.outcome = "generic_error" /\ ~main.call.fa

\* C23: a set-directory request served while a Build Loop worker is running
\* leaves working_directory as it was.
C23_DirectoryFixedWhileRunning ==
    [][(/\ dirsets' = dirsets + 1
        /\ is_running
        /\ \E w \in Slots : Alive(w))
       => working_directory' = working_directory]_vars

\* C24: opening a session whose file is corrupt, whatever the corruption,
\* ends with the file set aside under a backup name and a new dialogue
\* session in memory; the load does not end with an exception.
C24_CorruptFileQuarantined ==
    [][(restarts' = restarts + 1 /\ main'.load \in Corruptions)
       => /\ main'.pc = "idle"
          /\ main'.backup /\ session_file' = NoFile
          /\ mode' = "BRAINSTORMING" /\ project_plan' = Null
          /\ ~is_running']_vars

LoadsCheckpoint(w) ==
    /\ workers[w].kind = "feedback" /\ workers[w].pc = "start"
    /\ workers'[w].pc = "loop"
    /\ checkpoint_file # NoFile
    /\ checkpoint_file'.kind = "intact"

\* C26: a checkpoint load sets the cycle counter, the completion counter and
\* the provider fields to what the checkpoint holds, whatever they were, and
\* leaves the checkpoint as it is: a second load restores the same values.
C26_CheckpointLoadIdempotent ==
    [][\A w \in Slots : LoadsCheckpoint(w) =>
          /\ total_cycles' = checkpoint_file.total_cycles
          /\ consecutive_completion_signals' =
                 checkpoint_file.consecutive_completion_signals
          /\ current_architect' = checkpoint_file.current_architect
          /\ fallback_active' = checkpoint_file.fallback_active
          /\ checkpoint_file' = checkpoint_file]_vars

\* Two resumed workers have loaded the checkpoint one after the other, no
\* checkpoint saved in between: the counter is the checkpoint's after the
\* second load.
C26_Witness ==
    /\ checkpoint_file # NoFile
    /\ \E v, w \in Slots :
         /\ v # w
         /\ workers[v].kind = "feedback" /\ workers[w].kind = "feedback"
         /\ workers[v].first = "[INFO]checkpoint_found"
         /\ workers[w].first = "[INFO]checkpoint_found"
         /\ workers[v].pc = "dead" /\ workers[w].pc = "loop"
         /\ total_cycles = checkpoint_file.total_cycles

\* ----------------------------------------------------------- termination
\* A step of worker w's thread.
WorkerStep(w) ==
    \/ \E c \in CheckpointKinds : W_Start(w, c)
    \/ W_LoopTop(w)
    \/ \E o \in Outcomes : W_CallReturn(w, o)
    \/ \E o \in Outcomes : W_FallbackReturn(w, o)
    \/ \E how \in {"spawn_failed", "finished", "terminated"},
          q \in BOOLEAN, c \in BOOLEAN, e \in BOOLEAN, sig \in ErrSigs :
           W_Exec(w, how, q, c, e, sig)
    \/ W_Spawn(w) \/ W_PollStop(w) \/ W_Wait(w)
    \/ W_Exit(w)

\* Every thread that can take a step takes one in the end: the scheduler is
\* fair, and the provider calls and execution-agent runs return.
LiveSpec == Init /\ [][Next]_vars /\ \A w \in Slots : WF_vars(WorkerStep(w))

\* C27: every started worker reaches the end of its loop, where the closing
\* notice and the sentinel are emitted (or its process is ended before).
C27_WorkerTerminates ==
    \A w \in Slots :
        (workers[w].pc = "start")
        ~> (\/ workers[w].pc = "done" /\ workers[w].sentinels >= 1
            \/ workers[w].pc = "none")

\* C28: a session reopened after its worker left its loop and ended, with no
\* worker running, starts no recovery worker.
C28_NoRecoveryAfterExit ==
    [][(/\ restarts' = restarts + 1
        /\ main'.load = "intact"
        /\ ~is_running
        /\ \E w \in Slots : workers[w].pc = "done"
        /\ \A w \in Slots : ~Alive(w))
       => \A w \in Slots : workers'[w].kind # "recovery"]_vars

\* C29: once a fallback has switched current_architect, every provider call
\* goes to the provider it names: a worker's or the plan request's first call
\* when it is made, a dialogue turn's first call when the turn is served.
C29_CallsGoToCurrent ==
    [][fallback_active =>
        /\ \A w \in Slots :
             (workers[w].pc # "call" /\ workers'[w].pc = "call")
             => workers'[w].call.target = current_architect
        /\ (main.pc # "call" /\ main'.pc = "call")
           => main'.call.target = current_architect
        /\ (inputs' = inputs + 1 /\ main'.dlg)
           => main'.call.target = current_architect]_vars

\* A step of worker w's own thread at the test that follows its poll loop.
LeavesStopping(w) ==
    /\ SameProcess
    /\ workers[w].pc = "stopping" /\ workers'[w].pc # "stopping"

Launches(w) == workers[w].child = "none" /\ workers'[w].child = "running"

\* C31: a worker launches no execution agent once a stop has been requested:
\* is_running is true at every launch.
C31_NoSpawnAfterStop ==
    [][\A w \in Slots : Launches(w) => is_running]_vars

\* The steps of a dialogue turn: process_user_input hands the input to
\* handle_brainstorming and puts the turn's events.
DialogueTurn == inputs' = inputs + 1 /\ main'.dlg

\* C32: a dialogue turn ends the queue with one sentinel: the event before
\* its closing None is not a None too.
C32_OneSentinelPerTurn ==
    [][DialogueTurn =>
         /\ Len(output_queue') >= 2
         /\ Last(output_queue') = "None"
         /\ output_queue'[Len(output_queue') - 1] # "None"]_vars


\* The passes through the loop that start a cycle with a directory set: the
\* loop test passes and neither the cycle cap nor the error cap stops it.
StartsCycle(w) ==
    /\ SameProcess /\ LoopStep(w)
    /\ working_directory # Null
    /\ total_cycles < max_total_cycles
    /\ workers[w].consecutive_errors < MaxConsecutiveErrors

\* C33: every cycle started with a working directory set reaches the call
\* of the planning provider, with tdd_mode true as with tdd_mode false.
C33_CycleReachesProvider ==
    [][\A w \in Slots : StartsCycle(w) => workers'[w].pc = "call"]_vars


\* The steps that start a retry attempt of the call.
RetryAttempt ==
    /\ claude_call.pc = "enter" /\ claude_call'.pc = "run"
    /\ claude_call.retry_count > 0

\* C34: a retry attempt of _run_claude_with_prompt runs with a timeout at
\* least as long as that of the attempt before it.
C34_TimeoutNeverDecreases ==
    [][RetryAttempt =>
         claude_call'.current_timeout >= claude_call.current_timeout]_vars

\* The steps in which an attempt fails by its timeout or by a temporary
\* error when the retries are used up.
LastAttemptFails ==
    /\ claude_call.pc = "run" /\ claude_call'.pc # "run"
    /\ claude_call.retry_count >= claude_call.max_retries
    /\ \/ claude_call'.outcome = "timeout"
       \/ claude_call'.error_type = "temporary"
ErrorResults ==
    {"Errore: timed out", "Errore: command failed", "Errore: not found",
     "Errore: unexpected"}

\* C35: one logical call runs the command at most 1 + max_retries times,
\* the attempt that fails with the retries used up returns the error to
\* the caller, and every call returns.
C35_BoundedRetries ==
    /\ [](claude_call.invocations <= 1 + claude_call.max_retries)
    /\ [][LastAttemptFails =>
            /\ claude_call'.pc = "returned"
            /\ claude_call'.result \in ErrorResults]_vars
    /\ <>(claude_call.pc = "returned")
C35_Witness ==
    /\ claude_call.pc = "returned"
    /\ claude_call.max_retries = 3
    /\ claude_call.invocations = 4
    /\ claude_call.outcome = "timeout"
    /\ claude_call.result = "Errore: timed out"

\* The steps in which an attempt ends with a non-zero exit code whose
\* stderr is classified permanent.
PermanentFailure ==
    /\ claude_call.pc = "run"
    /\ claude_call'.outcome = "nonzero"
    /\ claude_call'.error_type = "permanent"

\* C36: a non-zero exit classified permanent returns the error at once,
\* without backoff, and the command is not run again for the call.
C36_PermanentShortCircuits ==
    [][/\ PermanentFailure =>
            /\ claude_call'.pc = "returned"
            /\ claude_call'.result = "Errore: command failed"
            /\ claude_call'.invocations = claude_call.invocations
       /\ claude_call.pc = "returned" =>
            claude_call'.invocations = claude_call.invocations]_vars
C36_Witness ==
    /\ claude_call.pc = "returned"
    /\ claude_call.error_type = "permanent"
    /\ claude_call.retry_count = 1
    /\ claude_call.max_retries = 3
    /\ claude_call.invocations = 2

\* The reference of the claim: temporary signatures first, then permanent
\* ones, temporary for a text that holds neither or is missing.
ReferenceType(e) ==
    IF \E i \in DOMAIN e.text : e.text[i] \in TemporarySignatures
    THEN "temporary"
    ELSE IF \E i \in DOMAIN e.text : e.text[i] \in PermanentSignatures
    THEN "permanent"
    ELSE "temporary"
\* The texts built from the signatures as they are written in the table.
KnownText(e) ==
    \A i \in DOMAIN e.text :
        e.text[i] \in TemporarySignatures \cup PermanentSignatures
                         \cup {"other"}

\* C37: the type _classify_claude_error gives to a stderr text built from
\* the known signatures, empty or missing, is the reference's.
C37_ClassifyMatchesReference ==
    (claude_call.outcome = "nonzero" /\ KnownText(claude_call.stderr))
        => claude_call.error_type = ReferenceType(claude_call.stderr)
C37_Witness ==
    /\ claude_call.outcome = "nonzero"
    /\ claude_call.stderr.text = <<"invalid", "503">>
    /\ claude_call.error_type = "temporary"


\* The steps that remove the checkpoint file.
RemovesCheckpoint == checkpoint_file # NoFile /\ checkpoint_file' = NoFile

\* C38: the checkpoint file is removed only by the stop at the completion
\* threshold: the step that removes it puts the completion notice and
\* leaves the counter at the threshold.
C38_CheckpointRemovedOnlyOnCompletion ==
    [][(SameProcess /\ RemovesCheckpoint) =>
         /\ consecutive_completion_signals' >= max_consecutive_completions
         /\ \E w \in Slots : /\ workers[w].pc \in ExecPcs
                             /\ workers'[w].pc = "exit"]_vars


\* The steps in which a resumed worker calls _load_checkpoint and finds no
\* file or a corrupt one.
LoadsNoCheckpoint(w) ==
    /\ workers[w].kind = "feedback" /\ workers[w].pc = "start"
    /\ workers'[w].pc = "loop"
    /\ \/ checkpoint_file = NoFile
       \/ checkpoint_file'.kind \in CheckpointCorruptions

\* C39: a load that finds no checkpoint file or a corrupt one announces no
\* checkpoint and leaves the counters and the provider fields as they were,
\* and the worker goes on to its loop.
C39_CorruptCheckpointIgnored ==
    [][\A w \in Slots : LoadsNoCheckpoint(w) =>
          /\ workers'[w].first # "[INFO]checkpoint_found"
          /\ total_cycles' = total_cycles
          /\ consecutive_completion_signals' = consecutive_completion_signals
          /\ ProviderStateUnchanged]_vars

\* C40: a worker that has run CheckpointEvery cycles or more has a
\* checkpoint on disk: after that many cycles ending in the same error a
\* checkpoint file exists.
C40_CheckpointAfterNCycles ==
    \A w \in Slots :
        (Alive(w) /\ workers[w].streak >= CheckpointEvery)
            => checkpoint_file # NoFile

=============================================================================
